---- MODULE Spec2Model ----
(***************************************************************************)
(* A model of the NO2 XGBoost training pipeline (src/train_and_test.py).   *)
(*                                                                         *)
(* The module holds five state machines over one set of variables:         *)
(*   SpecSeq  / SpecConc : prep_output, the run-directory allocation, run  *)
(*                         by one caller repeatedly / by two callers whose *)
(*                         file-system calls interleave;                   *)
(*   SpecGrid            : the grid built in train_and_run and the search  *)
(*                         of train_xgb (GridSearchCV);                    *)
(*   SpecSplit           : prep_input, called twice on the same table;     *)
(*   SpecPipe            : train_and_run, statement by statement;          *)
(*   SpecMetrics         : test_metrics (r2_score, mean_squared_error).    *)
(* Calls into os, pandas and scikit-learn are modelled at their call site  *)
(* by the documented behaviour of the call.  Paths follow the Windows      *)
(* separator the source writes ('\\'), so MODEL_RUNS\Run<n> is an entry of *)
(* MODEL_RUNS.                                                             *)
(***************************************************************************)
EXTENDS Integers, Sequences, FiniteSets, TLC

(***************************************************************************)
(* Bounds of the model.                                                    *)
(***************************************************************************)
MaxInitRun == 2      \* Run1..Run<MaxInitRun> may exist before the first call
MaxCalls == 2        \* calls of prep_output in one behaviour
MaxRange == 2        \* candidate values in one hyperparameter range
MaxGrid == 4         \* configurations in the Cartesian product of a grid
MaxRows == 3         \* rows of the observation table
MaxSplits == 2       \* calls of prep_input in one behaviour
MaxLen == 3          \* elements of a vector handed to test_metrics
MaxY == 2            \* the largest value of an element of such a vector

VARIABLES
    \* ---- the file system under main_folder and the callers of prep_output
    runsExists,      \* os.path.exists(runs_folder)
    fs,              \* entry name of MODEL_RUNS -> "none" | "file" | "dir"
    active,          \* the executions that may call prep_output
    opc,             \* per execution: its position in prep_output
    folders,         \* per execution: the result of os.listdir
    run_dirs,        \* per execution: the filtered directory names
    num,             \* per execution: the loop counter
    before,          \* per execution: the entries that existed when it called
    calls            \* the finished calls, in order of completion

VARIABLES
    \* ---- train_xgb and the grid it is given
    gpc,             \* position in train_and_run's grid set-up and train_xgb
    params_list,     \* the five ranges handed to train_and_run
    param_grid,      \* parameter name -> range
    scoring,         \* the scorer name handed to train_xgb
    cv_results,      \* xgb_iters.cv_results_: one row per evaluated candidate
    best_index,      \* xgb_iters.best_index_ (0 while not selected)
    out_list         \* what train_xgb returned

VARIABLES
    \* ---- prep_input and the table it is given
    spc,             \* position in prep_input
    table,           \* the column headers of the csv, in order
    nrows,           \* the number of rows of the csv
    in_cols,         \* the requested columns
    test_prop,       \* the test fraction, <<numerator, denominator>>
    mt,              \* the permutation RandomState(101) draws for nrows rows
    in_data,         \* the headers of the DataFrame handed to prep_input
    given,           \* in_data as it was when prep_input was called
    kept,            \* the headers of the local in_data after the selection
    splits           \* the finished calls of prep_input, in order

VARIABLES
    \* ---- train_and_run
    tpc,             \* the statement train_and_run is at
    out_folder,      \* the run directory prep_output returned (<<>>: none yet)
    written,         \* the files written under out_folder
    stages,          \* the statements completed, in order
    error            \* the exception that ended train_and_run

VARIABLES
    \* ---- the data train_and_run hands to the model
    cv,              \* k, the number of folds (GridSearchCV's cv)
    X_train,         \* the rows of the train partition, in order
    X_test,          \* the rows of the test partition, in order
    uses             \* the calls that were handed rows, in order

VARIABLES
    \* ---- test_metrics
    mpc,             \* position in test_metrics
    y_test,          \* the ground-truth vector
    prediction,      \* the prediction vector
    metrics          \* what test_metrics returned: <<r2, mse>>

fsVars == <<runsExists, fs, active, opc, folders, run_dirs, num, before, calls>>
gridVars == <<gpc, params_list, param_grid, scoring, cv_results, best_index, out_list>>

splitVars == <<spc, table, nrows, in_cols, test_prop, mt, in_data, given, kept, splits>>

pipeVars == <<tpc, out_folder, written, stages, error>>

dataVars == <<cv, X_train, X_test, uses>>

metricVars == <<mpc, y_test, prediction, metrics>>

vars == <<fsVars, gridVars, splitVars, pipeVars, dataVars, metricVars>>

\* what the actions of one part leave alone
NotFs == <<gridVars, splitVars, pipeVars, dataVars, metricVars>>
NotGrid == <<fsVars, splitVars, pipeVars, dataVars, metricVars>>
NotSplit == <<fsVars, gridVars, pipeVars, dataVars, metricVars>>
NotMetrics == <<fsVars, gridVars, splitVars, pipeVars, dataVars>>

(***************************************************************************)
(* Entry names.  A name is the sequence of its whitespace-separated words  *)
(* (what str.split() returns); a word is a stem and a number, so that      *)
(* 'Run%s' % num and the test 'Run' in word can be computed.               *)
(***************************************************************************)
RunWord(n) == [stem |-> "Run", num |-> n]
TmpWord == [stem |-> "tmp", num |-> 0]

\* dir_name = 'Run%s' % num
DirName(n) == <<RunWord(n)>>

MaxRun == MaxInitRun + MaxCalls

\* the names an entry of MODEL_RUNS can have in the model:
\* Run1.., 'tmp' and 'tmp Run1'
InitNames == {DirName(n) : n \in 1..MaxInitRun} \cup {<<TmpWord>>, <<TmpWord, RunWord(1)>>}
Names == InitNames \cup {DirName(n) : n \in 1..MaxRun}

Procs == {1, 2}

\* os.listdir(runs_folder)
ListDir(f) == {name \in Names : f[name] # "none"}

\* subs = [name for name in folders if os.path.isdir(os.path.join(runs_folder, name))]
Subs(f, listed) == {name \in listed : f[name] = "dir"}

\* run_dirs = [i for i in subs if 'Run' in i.split()[-1]]
RunDirs(subs) == {i \in subs : i[Len(i)].stem = "Run"}

\* the while loop: num counts up from its start until 'Run%s' % num is not in run_dirs
RECURSIVE FirstFree(_, _)
FirstFree(rd, n) == IF DirName(n) \in rd THEN FirstFree(rd, n + 1) ELSE n

\* the variant os.makedirs(out_dir, exist_ok=True): an existing directory is accepted
MakedirsFails_exist_ok(f, name) == f[name] = "file"

\* os.makedirs(out_dir): os.mkdir fails when the path exists, whatever its kind
MakedirsFails(f, name) == f[name] # "none"

(***************************************************************************)
(* prep_output, one action per file-system call.                           *)
(***************************************************************************)
CallRecord(p, outcome, name) ==
    [proc |-> p, outcome |-> outcome, out |-> name, before |-> before[p]]

\* prep_output(main_folder) is entered
PrepOutputCall(p) ==
    /\ p \in active
    /\ opc[p] = "idle"
    /\ Len(calls) + Cardinality({q \in Procs : opc[q] # "idle"}) < MaxCalls
    /\ opc' = [opc EXCEPT ![p] = "exists"]
    /\ before' = [before EXCEPT ![p] = ListDir(fs)]
    /\ UNCHANGED <<runsExists, fs, active, folders, run_dirs, num, calls>>
    /\ UNCHANGED NotFs

\* if not os.path.exists(runs_folder)
CheckRunsFolder(p) ==
    /\ opc[p] = "exists"
    /\ opc' = [opc EXCEPT ![p] = IF runsExists THEN "listdir" ELSE "mkruns"]
    /\ UNCHANGED <<runsExists, fs, active, folders, run_dirs, num, before, calls>>
    /\ UNCHANGED NotFs

\* os.makedirs(runs_folder)
MakeRunsFolder(p) ==
    /\ opc[p] = "mkruns"
    /\ IF runsExists
         THEN /\ calls' = Append(calls, CallRecord(p, "FileExistsError", <<>>))
              /\ opc' = [opc EXCEPT ![p] = "idle"]
              /\ UNCHANGED runsExists
         ELSE /\ runsExists' = TRUE
              /\ opc' = [opc EXCEPT ![p] = "listdir"]
              /\ UNCHANGED calls
    /\ UNCHANGED <<fs, active, folders, run_dirs, num, before>>
    /\ UNCHANGED NotFs

\* folders = os.listdir(runs_folder)
ListRunsFolder(p) ==
    /\ opc[p] = "listdir"
    /\ folders' = [folders EXCEPT ![p] = ListDir(fs)]
    /\ opc' = [opc EXCEPT ![p] = "filter"]
    /\ UNCHANGED <<runsExists, fs, active, run_dirs, num, before, calls>>
    /\ UNCHANGED NotFs

\* subs, run_dirs and the while loop up to the name it stops at
PickRunNumber(p) ==
    /\ opc[p] = "filter"
    /\ LET rd == RunDirs(Subs(fs, folders[p]))
       IN /\ run_dirs' = [run_dirs EXCEPT ![p] = rd]
          /\ num' = [num EXCEPT ![p] = FirstFree(rd, 1)]
    /\ opc' = [opc EXCEPT ![p] = "makedirs"]
    /\ UNCHANGED <<runsExists, fs, active, folders, before, calls>>
    /\ UNCHANGED NotFs

\* os.makedirs(out_dir) and the return of out_dir
MakeOutDir(p) ==
    /\ opc[p] = "makedirs"
    /\ LET dir_name == DirName(num[p])
       IN IF MakedirsFails(fs, dir_name)
            THEN /\ calls' = Append(calls, CallRecord(p, "FileExistsError", dir_name))
                 /\ UNCHANGED fs
            ELSE /\ fs' = [fs EXCEPT ![dir_name] = "dir"]
                 /\ calls' = Append(calls, CallRecord(p, "returned", dir_name))
    /\ opc' = [opc EXCEPT ![p] = "idle"]
    /\ UNCHANGED <<runsExists, active, folders, run_dirs, num, before>>
    /\ UNCHANGED NotFs

PrepOutputStep(p) ==
    \/ PrepOutputCall(p)
    \/ CheckRunsFolder(p)
    \/ MakeRunsFolder(p)
    \/ ListRunsFolder(p)
    \/ PickRunNumber(p)
    \/ MakeOutDir(p)

\* the state before any call: MODEL_RUNS absent, or present with any mix of
\* files and directories under the names of InitNames
InitFs(procs) ==
    /\ active = procs
    /\ runsExists \in BOOLEAN
    /\ fs \in [Names -> {"none", "file", "dir"}]
    /\ \A name \in Names : fs[name] # "none" => runsExists /\ name \in InitNames
    /\ opc = [p \in Procs |-> "idle"]
    /\ folders = [p \in Procs |-> {}]
    /\ run_dirs = [p \in Procs |-> {}]
    /\ num = [p \in Procs |-> 1]
    /\ before = [p \in Procs |-> {}]
    /\ calls = <<>>

\* no execution calls prep_output
IdleFs ==
    /\ active = {}
    /\ runsExists = FALSE
    /\ fs = [name \in Names |-> "none"]
    /\ opc = [p \in Procs |-> "idle"]
    /\ folders = [p \in Procs |-> {}]
    /\ run_dirs = [p \in Procs |-> {}]
    /\ num = [p \in Procs |-> 1]
    /\ before = [p \in Procs |-> {}]
    /\ calls = <<>>

NextFs == \E p \in Procs : PrepOutputStep(p)

(***************************************************************************)
(* The hyperparameter grid (train_and_run) and the search (train_xgb).     *)
(***************************************************************************)
\* a range: an ordered list of candidate values, possibly empty or with repeats.
\* Values are named in the order of their first appearance (the search never
\* reads them, it only hands them to the fits).
Ranges ==
    {r \in UNION {[1..n -> 1..MaxRange] : n \in 0..MaxRange} :
        \A i \in 1..Len(r) : \A v \in 1..(r[i] - 1) : \E j \in 1..(i - 1) : r[j] = v}

RECURSIVE SeqProduct(_)
SeqProduct(ns) == IF ns = <<>> THEN 1 ELSE Head(ns) * SeqProduct(Tail(ns))

\* param_grid = {'gamma': gammas, 'eta': etas, 'reg_lambda': lambdas,
\*               'colsample_bytree': colsample_range, 'max_depth': max_depths}
ParamGrid(pl) ==
    [gamma |-> pl[1], eta |-> pl[2], reg_lambda |-> pl[3],
     colsample_bytree |-> pl[4], max_depth |-> pl[5]]

\* ParameterGrid iterates sorted(param_grid.items())
SortedKeys == <<"colsample_bytree", "eta", "gamma", "max_depth", "reg_lambda">>

\* the number of candidates one step of key i spans: the product of the
\* lengths of the ranges after it
RECURSIVE Stride(_, _)
Stride(lens, i) == IF i >= Len(lens) THEN 1 ELSE lens[i + 1] * Stride(lens, i + 1)

\* a variant in which the first key steps as fast as the second
ProductPositions_stride(lens) ==
    [t \in 1..SeqProduct(lens) |->
        [i \in 1..Len(lens) |->
            (((t - 1) \div Stride(lens, IF i = 1 THEN 2 ELSE i)) % lens[i]) + 1]]

\* itertools.product(*values): the positions drawn from each range, in the
\* order of the nested loops, the last key varying fastest
ProductPositions(lens) ==
    [t \in 1..SeqProduct(lens) |->
        [i \in 1..Len(lens) |-> (((t - 1) \div Stride(lens, i)) % lens[i]) + 1]]

\* list(ParameterGrid(param_grid)): each candidate with the position it came from
Candidates(g) ==
    LET lens == [i \in 1..Len(SortedKeys) |-> Len(g[SortedKeys[i]])]
        poss == ProductPositions(lens)
    IN [t \in 1..Len(poss) |->
          [pos |-> poss[t],
           params |-> [i \in 1..Len(SortedKeys) |-> g[SortedKeys[i]][poss[t][i]]]]]

\* scikit-learn scorers: the metric is negated for the error metrics (neg_*), so
\* that a greater score is better for every scorer
Scorings == {"r2", "neg_mean_squared_error"}
Sign(sc) == IF sc = "r2" THEN 1 ELSE -1

\* what the cross-validated metric of one candidate can be in the model
MetricVals == {0, 1}

NaN == [nan |-> TRUE, val |-> 0]
Score(v) == [nan |-> FALSE, val |-> v]

Means == [t \in 1..Len(cv_results) |-> cv_results[t].mean_test_score]

\* np.nanmin(array_means)
NanMin(ms) ==
    LET vs == {ms[t].val : t \in {u \in 1..Len(ms) : ~ms[u].nan}}
    IN CHOOSE v \in vs : \A w \in vs : v <= w

\* a variant that ranks the ascending scores: rankdata(array_means)
Ranks_ascending(ms) ==
    IF \A t \in 1..Len(ms) : ms[t].nan
      THEN [t \in 1..Len(ms) |-> 1]
      ELSE LET filled == [t \in 1..Len(ms) |->
                            IF ms[t].nan THEN NanMin(ms) - 1 ELSE ms[t].val]
           IN [t \in 1..Len(ms) |->
                 1 + Cardinality({u \in 1..Len(ms) : filled[u] < filled[t]})]

\* rank_test_score: NaN means are replaced by nanmin - 1, then
\* rankdata(-array_means, method='min')
Ranks(ms) ==
    IF \A t \in 1..Len(ms) : ms[t].nan
      THEN [t \in 1..Len(ms) |-> 1]
      ELSE LET filled == [t \in 1..Len(ms) |->
                            IF ms[t].nan THEN NanMin(ms) - 1 ELSE ms[t].val]
           IN [t \in 1..Len(ms) |->
                 1 + Cardinality({u \in 1..Len(ms) : filled[u] > filled[t]})]

\* a variant of argmin that keeps the last minimum
ArgMin_last(rs) ==
    CHOOSE t \in 1..Len(rs) :
        /\ \A u \in 1..Len(rs) : rs[t] <= rs[u]
        /\ \A u \in (t + 1)..Len(rs) : rs[t] < rs[u]

\* numpy argmin: the first minimum
ArgMin(rs) ==
    CHOOSE t \in 1..Len(rs) :
        /\ \A u \in 1..Len(rs) : rs[t] <= rs[u]
        /\ \A u \in 1..(t - 1) : rs[t] < rs[u]

\* gammas, etas, lambdas, colsample_range, max_depths = params_list; param_grid = {...}
BuildGrid ==
    /\ gpc = "grid"
    /\ param_grid' = ParamGrid(params_list)
    /\ gpc' = "fit"
    /\ UNCHANGED <<params_list, scoring, cv_results, best_index, out_list>>
    /\ UNCHANGED NotGrid

\* xgb_model.fit(X_train, y_train), which may raise
InitialFit ==
    /\ gpc = "fit"
    /\ \E ok \in BOOLEAN : gpc' = IF ok THEN "search" ELSE "raised"
    /\ UNCHANGED <<params_list, param_grid, scoring, cv_results, best_index, out_list>>
    /\ UNCHANGED NotGrid

\* GridSearchCV rejects a grid with an empty range
RejectEmptyGrid ==
    /\ gpc = "search"
    /\ \E key \in DOMAIN param_grid : Len(param_grid[key]) = 0
    /\ gpc' = "raised"
    /\ UNCHANGED <<params_list, param_grid, scoring, cv_results, best_index, out_list>>
    /\ UNCHANGED NotGrid

\* xgb_iters.fit: the next candidate is cross-validated; its mean test score is
\* the signed metric, or NaN when one of its fits failed (error_score=nan)
EvaluateCandidate ==
    /\ gpc = "search"
    /\ \A key \in DOMAIN param_grid : Len(param_grid[key]) > 0
    /\ LET cands == Candidates(param_grid)
           t == Len(cv_results) + 1
       IN /\ t <= Len(cands)
          /\ \E s \in {Score(Sign(scoring) * m) : m \in MetricVals} \cup {NaN} :
                cv_results' = Append(cv_results,
                    [pos |-> cands[t].pos, params |-> cands[t].params,
                     mean_test_score |-> s])
    /\ UNCHANGED <<gpc, params_list, param_grid, scoring, best_index, out_list>>
    /\ UNCHANGED NotGrid

\* every fit of the search failed: GridSearchCV raises
AllFitsFailed ==
    /\ gpc = "search"
    /\ \A key \in DOMAIN param_grid : Len(param_grid[key]) > 0
    /\ Len(cv_results) = Len(Candidates(param_grid))
    /\ \A t \in 1..Len(cv_results) : cv_results[t].mean_test_score.nan
    /\ gpc' = "raised"
    /\ UNCHANGED <<params_list, param_grid, scoring, cv_results, best_index, out_list>>
    /\ UNCHANGED NotGrid

\* the ranks, best_index_, the refit (refit=True) and the return of out_list
SelectBest ==
    /\ gpc = "search"
    /\ \A key \in DOMAIN param_grid : Len(param_grid[key]) > 0
    /\ Len(cv_results) = Len(Candidates(param_grid))
    /\ LET best == ArgMin(Ranks(Means))
       IN /\ best_index' = best
          /\ \E ok \in BOOLEAN :
                IF ok
                  THEN /\ gpc' = "done"
                       /\ out_list' = [cv_results_df |-> cv_results,
                                       best_params |-> cv_results[best].params,
                                       best_score |-> cv_results[best].mean_test_score]
                  ELSE /\ gpc' = "raised"
                       /\ UNCHANGED out_list
    /\ UNCHANGED <<params_list, param_grid, scoring, cv_results>>
    /\ UNCHANGED NotGrid

NoResult == [cv_results_df |-> <<>>, best_params |-> <<>>, best_score |-> NaN]

InitGrid ==
    /\ gpc = "grid"
    /\ params_list \in [1..5 -> Ranges]
    /\ SeqProduct([i \in 1..5 |-> Len(params_list[i])]) <= MaxGrid
    /\ param_grid = ParamGrid([i \in 1..5 |-> <<>>])
    /\ scoring \in Scorings
    /\ cv_results = <<>>
    /\ best_index = 0
    /\ out_list = NoResult

\* the search is not running
IdleGrid ==
    /\ gpc = "off"
    /\ params_list = [i \in 1..5 |-> <<>>]
    /\ param_grid = ParamGrid([i \in 1..5 |-> <<>>])
    /\ scoring = "r2"
    /\ cv_results = <<>>
    /\ best_index = 0
    /\ out_list = NoResult

NextGrid ==
    \/ BuildGrid
    \/ InitialFit
    \/ RejectEmptyGrid
    \/ EvaluateCandidate
    \/ AllFitsFailed
    \/ SelectBest



(***************************************************************************)
(* prep_input.  A header is the sequence of its characters; a run of        *)
(* characters other than ' ' and '_' is written as one element ("mean",    *)
(* "no2", "a"), which changes none of the tests the code makes.            *)
(***************************************************************************)
mean_no2 == <<"mean", "_", "no2">>

\* the headers a csv can have in the model: mean_no2, 'mean no2', 'a',
\* 'a ' and ' a'
HeaderPool == {mean_no2, <<"mean", " ", "no2">>, <<"a">>, <<"a", " ">>, <<" ", "a">>}

\* the column names a caller can request: mean_no2, 'a', '_a'
ColumnPool == {mean_no2, <<"a">>, <<"_", "a">>}

\* the test fractions: 0.0, 0.25, 0.5, 0.75 and 1.0, all exact as floats
TestProps == {<<0, 4>>, <<1, 4>>, <<2, 4>>, <<3, 4>>, <<4, 4>>}

RowPermutations(n) == {f \in [1..n -> 1..n] : \A i, j \in 1..n : i # j => f[i] # f[j]}

HasSpace(str) == \E i \in 1..Len(str) : str[i] = " "

\* str(col)[:-1]
ButLast(str) == SubSeq(str, 1, Len(str) - 1)

\* str(col).replace(' ', '_')
ReplaceSpaces(str) == [i \in 1..Len(str) |-> IF str[i] = " " THEN "_" ELSE str[i]]

\* new = str(col).replace(' ', '_'); if new[-1] == '_': new = new[:-1]
NewName(col) ==
    LET new == ReplaceSpaces(col)
    IN IF new[Len(new)] = "_" THEN ButLast(new) ELSE new

\* in_data.rename(columns={str(col): new}, inplace=True)
Rename(cols, col, new) == [i \in 1..Len(cols) |-> IF cols[i] = col THEN new ELSE cols[i]]

Count(cols, col) == Cardinality({i \in 1..Len(cols) : cols[i] = col})

\* the loop over list(in_data.columns) from its k-th header on; in_data[col] of
\* a label two columns carry is a DataFrame, and the test of its dtypes raises
RECURSIVE CleanFrom(_, _, _)
CleanFrom(listed, k, cols) ==
    IF k > Len(listed) THEN [raised |-> FALSE, cols |-> cols]
    ELSE LET col == listed[k]
         IN IF Count(cols, col) > 1 THEN [raised |-> TRUE, cols |-> cols]
            ELSE IF HasSpace(ButLast(col))
                   THEN CleanFrom(listed, k + 1, Rename(cols, col, NewName(col)))
                   ELSE CleanFrom(listed, k + 1, cols)

\* a variant of the selection that fills a missing column in: reindex(columns=in_cols)
SelectFails_reindex(cols, wanted) == FALSE

\* in_data[in_cols] raises KeyError when a requested column is not a header
SelectFails(cols, wanted) ==
    \E i \in 1..Len(wanted) : \A j \in 1..Len(cols) : cols[j] # wanted[i]

\* in_data[in_cols]: for each requested name, the columns that carry it
RECURSIVE Select(_, _)
Select(cols, wanted) ==
    IF wanted = <<>> THEN <<>>
    ELSE SelectSeq(cols, LAMBDA c : c = Head(wanted)) \o Select(cols, Tail(wanted))

\* n_test = ceil(test_size * n_samples)
NTest(prop, n) == (prop[1] * n + prop[2] - 1) \div prop[2]

\* train_test_split rejects a fraction outside (0, 1) and an empty train set
SplitFails(prop, n) ==
    \/ prop[1] <= 0
    \/ prop[1] >= prop[2]
    \/ n - NTest(prop, n) <= 0

\* ind_test = permutation[:n_test]
TestIndices(perm, n_test) == SubSeq(perm, 1, n_test)

\* a variant whose train slice starts one index early
TrainIndices_overlap(perm, n_test, n_train) ==
    SubSeq(perm, n_test, n_test + n_train - 1)

\* ind_train = permutation[n_test:(n_test + n_train)]
TrainIndices(perm, n_test, n_train) == SubSeq(perm, n_test + 1, n_test + n_train)

\* a variant with random_state=None: the shuffle is seeded from the clock
SplitPermutations_unseeded == RowPermutations(nrows)

\* random_state=101: the shuffle of a given number of rows is always the same
SplitPermutations == {mt}

SplitRecord(outcome, cleaned, xcols, train, test) ==
    [given |-> given, outcome |-> outcome, cleaned |-> cleaned, xcols |-> xcols,
     X_train |-> train, X_test |-> test]

\* prep_input(in_data, in_cols, test_prop) is called, on a table fresh from the
\* csv or on the DataFrame an earlier call was given
PrepInputCall ==
    /\ spc = "idle"
    /\ Len(splits) < MaxSplits
    /\ \E df \in {table, in_data} :
          /\ in_data' = df
          /\ given' = df
    /\ spc' = "clean"
    /\ UNCHANGED <<table, nrows, in_cols, test_prop, mt, kept, splits>>
    /\ UNCHANGED NotSplit

\* the loop that standardizes the column headers (lines 35-42)
CleanHeaders ==
    /\ spc = "clean"
    /\ LET r == CleanFrom(in_data, 1, in_data)
       IN /\ in_data' = r.cols
          /\ IF r.raised
               THEN /\ splits' = Append(splits,
                                    SplitRecord("ValueError", <<>>, <<>>, <<>>, <<>>))
                    /\ spc' = "idle"
               ELSE /\ spc' = "select"
                    /\ UNCHANGED splits
    /\ UNCHANGED <<table, nrows, in_cols, test_prop, mt, given, kept>>
    /\ UNCHANGED NotSplit

\* in_data = in_data[in_cols]
SelectColumns ==
    /\ spc = "select"
    /\ IF SelectFails(in_data, in_cols)
         THEN /\ splits' = Append(splits,
                              SplitRecord("KeyError", in_data, <<>>, <<>>, <<>>))
              /\ spc' = "idle"
              /\ UNCHANGED kept
         ELSE /\ kept' = Select(in_data, in_cols)
              /\ spc' = "xy"
              /\ UNCHANGED splits
    /\ UNCHANGED <<table, nrows, in_cols, test_prop, mt, in_data, given>>
    /\ UNCHANGED NotSplit

\* ytr = in_data['mean_no2'].values; xtr = in_data.drop('mean_no2', axis=1)
SplitXY ==
    /\ spc = "xy"
    /\ IF Count(kept, mean_no2) = 0
         THEN /\ splits' = Append(splits,
                              SplitRecord("KeyError", in_data, <<>>, <<>>, <<>>))
              /\ spc' = "idle"
         ELSE /\ spc' = "split"
              /\ UNCHANGED splits
    /\ UNCHANGED <<table, nrows, in_cols, test_prop, mt, in_data, given, kept>>
    /\ UNCHANGED NotSplit

\* train_test_split(xtr, ytr, test_size=test_prop, random_state=101) and the return
TrainTestSplit ==
    /\ spc = "split"
    /\ LET xtr == SelectSeq(kept, LAMBDA c : c # mean_no2)
           n_test == NTest(test_prop, nrows)
           n_train == nrows - n_test
       IN IF SplitFails(test_prop, nrows)
            THEN splits' = Append(splits,
                               SplitRecord("ValueError", in_data, <<>>, <<>>, <<>>))
            ELSE \E permutation \in SplitPermutations :
                    splits' = Append(splits,
                        SplitRecord("returned", in_data, xtr,
                                    TrainIndices(permutation, n_test, n_train),
                                    TestIndices(permutation, n_test)))
    /\ spc' = "idle"
    /\ UNCHANGED <<table, nrows, in_cols, test_prop, mt, in_data, given, kept>>
    /\ UNCHANGED NotSplit

InitTable ==
    /\ spc = "idle"
    /\ table \in {h \in [1..2 -> HeaderPool] : h[1] # h[2]}
    /\ nrows \in 0..MaxRows
    /\ in_cols \in UNION {[1..n -> ColumnPool] : n \in 1..2}
    /\ test_prop \in TestProps
    /\ mt \in RowPermutations(nrows)
    /\ in_data = table
    /\ given = table
    /\ kept = <<>>
    /\ splits = <<>>

\* prep_input is not called
IdleSplit ==
    /\ spc = "off"
    /\ table = <<>>
    /\ nrows = 0
    /\ in_cols = <<>>
    /\ test_prop = <<1, 4>>
    /\ mt = <<>>
    /\ in_data = <<>>
    /\ given = <<>>
    /\ kept = <<>>
    /\ splits = <<>>

NextSplit ==
    \/ PrepInputCall
    \/ CleanHeaders
    \/ SelectColumns
    \/ SplitXY
    \/ TrainTestSplit




(***************************************************************************)
(* test_metrics.  A vector is a sequence of integers and a metric is NaN   *)
(* or the exact fraction num/den.  On equal vectors every difference is    *)
(* exactly zero in floating point too, so rounding changes neither metric. *)
(***************************************************************************)
Vectors == UNION {[1..n -> 0..MaxY] : n \in 0..MaxLen}

RECURSIVE SumSeq(_)
SumSeq(v) == IF v = <<>> THEN 0 ELSE Head(v) + SumSeq(Tail(v))

Undefined == [nan |-> TRUE, num |-> 0, den |-> 1]

Fraction(top, bottom) == [nan |-> FALSE, num |-> top, den |-> bottom]

\* check_consistent_length and check_array: vectors of different lengths
\* and empty vectors are rejected with ValueError
MetricFails(y_true, y_pred) == Len(y_true) # Len(y_pred) \/ Len(y_true) = 0

\* numerator = ((y_true - y_pred) ** 2).sum()
SSres(y_true, y_pred) ==
    SumSeq([i \in 1..Len(y_true) |-> (y_true[i] - y_pred[i]) * (y_true[i] - y_pred[i])])

\* n times the denominator ((y_true - average(y_true)) ** 2).sum(), which is
\* n * sum(y ** 2) - sum(y) ** 2
NSStot(y_true) ==
    Len(y_true) * SumSeq([i \in 1..Len(y_true) |-> y_true[i] * y_true[i]])
        - SumSeq(y_true) * SumSeq(y_true)

\* a variant with no case for a zero denominator: 1 - numerator / denominator
R2Score_plain(y_true, y_pred) ==
    LET numerator == Len(y_true) * SSres(y_true, y_pred)
        denominator == NSStot(y_true)
    IN IF Len(y_true) < 2 \/ denominator = 0 THEN Undefined
       ELSE Fraction(denominator - numerator, denominator)

\* r2_score: NaN (with a warning) for fewer than two samples; otherwise
\* 1 - numerator / denominator, but 1.0 when both are zero and 0.0 when only
\* the denominator is
R2Score(y_true, y_pred) ==
    LET numerator == Len(y_true) * SSres(y_true, y_pred)
        denominator == NSStot(y_true)
    IN IF Len(y_true) < 2 THEN Undefined
       ELSE IF denominator # 0 THEN Fraction(denominator - numerator, denominator)
       ELSE IF numerator # 0 THEN Fraction(0, 1)
       ELSE Fraction(1, 1)

\* mean_squared_error: average((y_true - y_pred) ** 2)
MeanSquaredError(y_true, y_pred) == Fraction(SSres(y_true, y_pred), Len(y_true))

\* r2 = r2_score(y_test, prediction)
ComputeR2 ==
    /\ mpc = "r2"
    /\ IF MetricFails(y_test, prediction)
         THEN /\ mpc' = "ValueError"
              /\ UNCHANGED metrics
         ELSE /\ metrics' = <<R2Score(y_test, prediction)>>
              /\ mpc' = "mse"
    /\ UNCHANGED <<y_test, prediction>>
    /\ UNCHANGED NotMetrics

\* mse = mean_squared_error(y_test, prediction); return [r2, mse]
ComputeMse ==
    /\ mpc = "mse"
    /\ metrics' = Append(metrics, MeanSquaredError(y_test, prediction))
    /\ mpc' = "returned"
    /\ UNCHANGED <<y_test, prediction>>
    /\ UNCHANGED NotMetrics

\* test_metrics(y_test, prediction) is called
InitVectors ==
    /\ mpc = "r2"
    /\ y_test \in Vectors
    /\ prediction \in Vectors
    /\ metrics = <<>>

\* test_metrics is not called
IdleMetrics ==
    /\ mpc = "off"
    /\ y_test = <<>>
    /\ prediction = <<>>
    /\ metrics = <<>>

NextMetrics ==
    \/ ComputeR2
    \/ ComputeMse

(***************************************************************************)
(* train_and_run, one action per statement.  The functions it calls are    *)
(* taken whole here, computed with the operators above; a call into a      *)
(* library that can fail either succeeds or raises.                        *)
(***************************************************************************)
NoError == [type |-> "none", cause |-> "none", at |-> "none"]

Raise(type, cause, at) ==
    /\ tpc' = "raised"
    /\ error' = [type |-> type, cause |-> cause, at |-> at]

Advance(stage, next) ==
    /\ tpc' = next
    /\ stages' = Append(stages, stage)
    /\ UNCHANGED error

\* the hyper-parameter plots: one per key of param_grid
HyperPlots == {"hyper_tuning/gamma.png", "hyper_tuning/eta.png",
               "hyper_tuning/reg_lambda.png", "hyper_tuning/colsample_bytree.png",
               "hyper_tuning/max_depth.png"}

\* the columns of xtr: in_data.drop('mean_no2', axis=1)
XColumns(cols) == SelectSeq(cols, LAMBDA c : c # mean_no2)

\* the numbers of folds a caller can ask for: the least GridSearchCV
\* accepts, and the default of train_and_run
KFolds == {2, 5}

RowSet(sq) == {sq[i] : i \in 1..Len(sq)}

\* a call that is handed rows: what it does, the argument, the rows
Use(op, arg, rows) == [op |-> op, arg |-> arg, rows |-> rows]

\* a variant that tunes on the whole table: train_xgb(xtr, ytr, ...)
SearchData_all == X_train \o X_test

\* the rows handed to train_xgb: train_xgb(X_train, y_train, ...)
SearchData == X_train

\* the rows handed to model_test: model_test(X_test, y_test, ...)
TestData == X_test

\* KFold(n_splits=cv), not shuffled: the j-th fold is a block of consecutive
\* rows, the first n % cv folds one row longer than the others
FoldSize(n, j) == n \div cv + (IF j <= n % cv THEN 1 ELSE 0)

FoldStart(n, j) == (j - 1) * (n \div cv) + (IF j - 1 <= n % cv THEN j - 1 ELSE n % cv)

Validation(X, j) ==
    {X[i] : i \in (FoldStart(Len(X), j) + 1)..(FoldStart(Len(X), j) + FoldSize(Len(X), j))}

\* the search: for each fold, a fit on the rows outside its block and a
\* score on the block (the same folds for every configuration)
CrossValidation(X) ==
    [i \in 1..(2 * cv) |->
        LET j == (i + 1) \div 2
        IN IF i % 2 = 1 THEN Use("cv_fit", "X_train", RowSet(X) \ Validation(X, j))
                        ELSE Use("cv_score", "X_train", Validation(X, j))]

\* out_folder = prep_output(main_folder)
RunDirector ==
    /\ tpc = "prep_output"
    /\ LET dir_name == DirName(FirstFree(RunDirs(Subs(fs, ListDir(fs))), 1))
       IN /\ runsExists' = TRUE
          /\ IF MakedirsFails(fs, dir_name)
               THEN /\ Raise("FileExistsError", "run directory", "prep_output")
                    /\ UNCHANGED <<fs, out_folder, stages>>
               ELSE /\ fs' = [fs EXCEPT ![dir_name] = "dir"]
                    /\ out_folder' = dir_name
                    /\ Advance("prep_output", "init_logger")
    /\ UNCHANGED <<active, opc, folders, run_dirs, num, before, calls>>
    /\ UNCHANGED <<gridVars, splitVars, written, dataVars, metricVars>>

\* init_logger(__file__, log_name=out_folder + '\\run_log.log'): the log file is opened
InitLogger ==
    /\ tpc = "init_logger"
    /\ written' = written \cup {"run_log.log"}
    /\ Advance("init_logger", "read_csv")
    /\ UNCHANGED <<fsVars, gridVars, splitVars, out_folder, dataVars, metricVars>>

\* in_data = pd.read_csv(in_csv); in_data = in_data[in_cols]
ReadCsv ==
    /\ tpc = "read_csv"
    /\ \E ok \in BOOLEAN :
          IF ~ok
            THEN /\ Raise("IOError", "input file", "read_csv")
                 /\ UNCHANGED <<in_data, stages>>
            ELSE IF SelectFails(table, in_cols)
                   THEN /\ Raise("KeyError", "requested column", "read_csv")
                        /\ UNCHANGED <<in_data, stages>>
                   ELSE /\ in_data' = Select(table, in_cols)
                        /\ Advance("read_csv", "param_grid")
    /\ UNCHANGED <<spc, table, nrows, in_cols, test_prop, mt, given, kept, splits>>
    /\ UNCHANGED <<fsVars, gridVars, out_folder, written, dataVars, metricVars>>

\* gammas, ..., max_depths = params_list; param_grid = {...}; the grid is logged
SetUpGrid ==
    /\ tpc = "param_grid"
    /\ param_grid' = ParamGrid(params_list)
    /\ Advance("param_grid", "prep_input")
    /\ UNCHANGED <<gpc, params_list, scoring, cv_results, best_index, out_list>>
    /\ UNCHANGED <<fsVars, splitVars, out_folder, written, dataVars, metricVars>>

\* out = prep_input(in_data, in_cols, test_prop);
\* X_train, X_test, y_train, y_test = out[1].  The permutation is the one
\* RandomState(101) draws for the number of rows of the table.
PrepInput ==
    /\ tpc = "prep_input"
    /\ LET r == CleanFrom(in_data, 1, in_data)
           n_test == NTest(test_prop, nrows)
           n_train == nrows - n_test
           fails == /\ UNCHANGED <<kept, stages, mt, X_train, X_test>>
       IN /\ in_data' = r.cols
          /\ IF r.raised
               THEN Raise("ValueError", "duplicate header", "prep_input") /\ fails
               ELSE IF SelectFails(r.cols, in_cols)
                 THEN Raise("KeyError", "requested column", "prep_input") /\ fails
               ELSE IF Count(Select(r.cols, in_cols), mean_no2) = 0
                 THEN Raise("KeyError", "mean_no2", "prep_input") /\ fails
               ELSE IF test_prop[1] <= 0 \/ test_prop[1] >= test_prop[2]
                 THEN Raise("ValueError", "test fraction", "prep_input") /\ fails
               ELSE IF SplitFails(test_prop, nrows)
                 THEN Raise("ValueError", "empty train set", "prep_input") /\ fails
               ELSE /\ kept' = Select(r.cols, in_cols)
                    /\ \E permutation \in RowPermutations(nrows) :
                          /\ mt' = permutation
                          /\ X_train' = TrainIndices(permutation, n_test, n_train)
                          /\ X_test' = TestIndices(permutation, n_test)
                    /\ Advance("prep_input", "to_csv")
    /\ UNCHANGED <<spc, table, nrows, in_cols, test_prop, given, splits>>
    /\ UNCHANGED <<fsVars, gridVars, out_folder, written, cv, uses, metricVars>>

\* a statement that is handed rows and writes files under out_folder, or raises
Writes(at, files, next, use) ==
    /\ tpc = at
    /\ uses' = uses \o use
    /\ \E ok \in BOOLEAN :
          IF ok
            THEN /\ written' = written \cup files
                 /\ Advance(at, next)
            ELSE /\ Raise("Exception", "library", at)
                 /\ UNCHANGED <<written, stages>>
    /\ UNCHANGED <<fsVars, gridVars, splitVars, out_folder>>
    /\ UNCHANGED <<cv, X_train, X_test, metricVars>>

\* X_train.to_csv(out_folder + '\\X_train.csv')
ExportTrain == Writes("to_csv", {"X_train.csv"}, "cross_cross", <<>>)

\* cross_cross(X_df, out_folder=out_folder): the correlations of all of xtr
CrossCorrelation ==
    Writes("cross_cross", {"x_variables_cross_corrs.png"}, "train_xgb",
           <<Use("corr", "X_df", 1..nrows)>>)

\* train_xgb(X, y, param_grid, k=k, scoring='r2'), then the statement `next`:
\* the first fit, then the search over the folds and the refit of the best
\* configuration on all of X
TrainXgbThen(X, next) ==
    /\ tpc = "train_xgb"
    /\ \E ok \in BOOLEAN :
          IF ~ok
            THEN /\ Raise("Exception", "fit", "train_xgb")
                 /\ uses' = Append(uses, Use("fit", "X_train", RowSet(X)))
                 /\ UNCHANGED stages
            ELSE IF \E key \in DOMAIN param_grid : Len(param_grid[key]) = 0
                   THEN /\ Raise("ValueError", "empty grid", "train_xgb")
                        /\ uses' = Append(uses, Use("fit", "X_train", RowSet(X)))
                        /\ UNCHANGED stages
            ELSE IF cv > Len(X)
                   THEN /\ Raise("ValueError", "folds", "train_xgb")
                        /\ uses' = Append(uses, Use("fit", "X_train", RowSet(X)))
                        /\ UNCHANGED stages
                   ELSE /\ uses' = Append(uses, Use("fit", "X_train", RowSet(X)))
                                       \o CrossValidation(X)
                                       \o <<Use("refit", "X_train", RowSet(X))>>
                        /\ Advance("train_xgb", next)
    /\ UNCHANGED <<fsVars, gridVars, splitVars, out_folder, written>>
    /\ UNCHANGED <<cv, X_train, X_test, metricVars>>

\* a variant that persists the model before it is tested
TrainXgb_then_dump == TrainXgbThen(SearchData, "joblib.dump")

\* out_list = train_xgb(X_train, y_train, param_grid, k=k, scoring='r2')
TrainXgb == TrainXgbThen(SearchData, "model_test")

\* model_test(X_test, y_test, best_model, out_list[2], out_folder):
\* prediction = model.predict(X_test); test_metrics(y_test, prediction)
ModelTest ==
    Writes("model_test", {"model_test.png"}, "plot_feature_importance",
           <<Use("predict", "X_test", RowSet(TestData)),
             Use("test_metrics", "y_test", RowSet(TestData))>>)

\* plot_feature_importance(best_model, out_folder)
PlotFeatureImportance ==
    Writes("plot_feature_importance", {"model_feature_importance.png"},
           "plot_hyperparams", <<>>)

\* plot_hyperparams(out_list[0], param_grid, out_folder): the score table is
\* written before the plots are drawn
PlotHyperparams ==
    /\ tpc = "plot_hyperparams"
    /\ \E reached \in {"nothing", "csv", "plots"} :
          /\ written' = written \cup
                (IF reached = "nothing" THEN {}
                 ELSE IF reached = "csv" THEN {"hyper_tuning/hyper_params_scoring.csv"}
                 ELSE {"hyper_tuning/hyper_params_scoring.csv"} \cup HyperPlots)
          /\ IF reached = "plots"
               THEN Advance("plot_hyperparams", "joblib.dump")
               ELSE /\ Raise("Exception", "library", "plot_hyperparams")
                    /\ UNCHANGED stages
    /\ UNCHANGED <<fsVars, gridVars, splitVars, out_folder, dataVars, metricVars>>

\* joblib.dump(best_model, saved_model)
SaveModel == Writes("joblib.dump", {"best_estimator.pkl"}, "shap_analytics", <<>>)

\* X_shap = X_train[in_cols]; shap_model = joblib.load(saved_model);
\* shap_analytics(shap_model, X_shap, out_folder).  No handler encloses the
\* statements.  X_train[in_cols] raises KeyError for a requested column that
\* X_train lacks; in shap_analytics the explainer may raise, and
\* shap.summary_plot returns None, so that fig1.save raises AttributeError.
Explain ==
    /\ tpc = "shap_analytics"
    /\ IF SelectFails(XColumns(kept), in_cols)
         THEN Raise("KeyError", "explainer", "shap_analytics") /\ UNCHANGED uses
         ELSE /\ uses' = Append(uses, Use("shap_values", "X_train", RowSet(X_train)))
              /\ \E ok \in BOOLEAN :
                    IF ok THEN Raise("AttributeError", "explainer", "shap_analytics")
                          ELSE Raise("Exception", "explainer", "shap_analytics")
    /\ UNCHANGED <<fsVars, gridVars, splitVars, out_folder, written, stages>>
    /\ UNCHANGED <<cv, X_train, X_test, metricVars>>

\* train_and_run is not running
IdlePipe ==
    /\ tpc = "off"
    /\ out_folder = <<>>
    /\ written = {}
    /\ stages = <<>>
    /\ error = NoError
    /\ cv = 5
    /\ X_train = <<>>
    /\ X_test = <<>>
    /\ uses = <<>>

\* train_and_run(in_csv, in_cols, params_list, test_prop) is called: MODEL_RUNS
\* may exist and hold Run1 as a file or a directory; every range of the grid
\* holds one value, but for the first, which may be empty
InitPipe ==
    /\ tpc = "prep_output"
    /\ out_folder = <<>>
    /\ written = {}
    /\ stages = <<>>
    /\ error = NoError
    /\ cv \in KFolds
    /\ X_train = <<>>
    /\ X_test = <<>>
    /\ uses = <<>>
    /\ IdleMetrics
    /\ active = {}
    /\ runsExists \in BOOLEAN
    /\ fs \in {[name \in Names |-> IF name = DirName(1) THEN kind ELSE "none"] :
                   kind \in IF runsExists THEN {"none", "file", "dir"} ELSE {"none"}}
    /\ opc = [p \in Procs |-> "idle"]
    /\ folders = [p \in Procs |-> {}]
    /\ run_dirs = [p \in Procs |-> {}]
    /\ num = [p \in Procs |-> 1]
    /\ before = [p \in Procs |-> {}]
    /\ calls = <<>>
    /\ spc = "off"
    /\ table \in {h \in [1..2 -> HeaderPool] : h[1] # h[2]}
    /\ nrows \in 0..MaxRows
    /\ in_cols \in UNION {[1..n -> ColumnPool] : n \in 1..2}
    /\ test_prop \in TestProps
    /\ mt = <<>>
    /\ in_data = <<>>
    /\ given = <<>>
    /\ kept = <<>>
    /\ splits = <<>>
    /\ gpc = "off"
    /\ params_list \in {[i \in 1..5 |-> IF i = 1 THEN gammas ELSE <<1>>] :
                          gammas \in {<<>>, <<1>>}}
    /\ param_grid = ParamGrid([i \in 1..5 |-> <<>>])
    /\ scoring = "r2"
    /\ cv_results = <<>>
    /\ best_index = 0
    /\ out_list = NoResult

NextPipe ==
    \/ RunDirector
    \/ InitLogger
    \/ ReadCsv
    \/ SetUpGrid
    \/ PrepInput
    \/ ExportTrain
    \/ CrossCorrelation
    \/ TrainXgb
    \/ ModelTest
    \/ PlotFeatureImportance
    \/ PlotHyperparams
    \/ SaveModel
    \/ Explain

SpecPipe == InitPipe /\ [][NextPipe]_vars

InitSeq == InitFs({1}) /\ IdleGrid /\ IdleSplit /\ IdlePipe /\ IdleMetrics
InitConc == InitFs(Procs) /\ IdleGrid /\ IdleSplit /\ IdlePipe /\ IdleMetrics

InitSearch == InitGrid /\ IdleFs /\ IdleSplit /\ IdlePipe /\ IdleMetrics

SpecGrid == InitSearch /\ [][NextGrid]_vars

InitSplit == InitTable /\ IdleFs /\ IdleGrid /\ IdlePipe /\ IdleMetrics

InitMetrics == InitVectors /\ IdleFs /\ IdleGrid /\ IdleSplit /\ IdlePipe

SpecMetrics == InitMetrics /\ [][NextMetrics]_vars

SpecSplit == InitSplit /\ [][NextSplit]_vars

SpecSeq == InitSeq /\ [][NextFs]_vars
SpecConc == InitConc /\ [][NextFs]_vars

(***************************************************************************)
(* Claims about prep_output.                                               *)
(***************************************************************************)
Finished == 1..Len(calls)

\* C1 (as claimed): every finished call of a sequence of calls returned a
\* directory, one that did not exist when the call began and that no other
\* call returned, whatever files and directories MODEL_RUNS held at first.
C1_EveryCallReturnsFreshDir ==
    \A i \in Finished :
        /\ calls[i].outcome = "returned"
        /\ calls[i].out \notin calls[i].before
        /\ \A j \in Finished : j # i => calls[j].out # calls[i].out

\* C2: two executions whose file-system calls interleave never both return
\* the same Run directory.
C2_NoSharedRunDir ==
    \A i, j \in Finished :
        (i # j /\ calls[i].outcome = "returned" /\ calls[j].outcome = "returned")
            => calls[i].out # calls[j].out

\* C2 witness: both executions listed MODEL_RUNS before either created its
\* directory and picked the same number; one returned it, the other did not.
C2_Witness ==
    \E i, j \in Finished :
        /\ calls[i].proc # calls[j].proc
        /\ calls[i].outcome = "returned"
        /\ calls[j].outcome = "FileExistsError"
        /\ calls[j].out = calls[i].out
        /\ calls[j].out \notin calls[j].before

(***************************************************************************)
(* Claims about the grid search.                                           *)
(***************************************************************************)
KeyIndex(key) == CHOOSE i \in 1..Len(SortedKeys) : SortedKeys[i] = key

\* the Cartesian product of the five ranges handed to train_and_run, by position
GridPoints ==
    [gamma : 1..Len(params_list[1]), eta : 1..Len(params_list[2]),
     reg_lambda : 1..Len(params_list[3]), colsample_bytree : 1..Len(params_list[4]),
     max_depth : 1..Len(params_list[5])]

RowPoint(row) == [key \in DOMAIN param_grid |-> row.pos[KeyIndex(key)]]

RowValues(row) == [key \in DOMAIN param_grid |-> row.params[KeyIndex(key)]]

PointValues(pt) ==
    [gamma |-> params_list[1][pt.gamma], eta |-> params_list[2][pt.eta],
     reg_lambda |-> params_list[3][pt.reg_lambda],
     colsample_bytree |-> params_list[4][pt.colsample_bytree],
     max_depth |-> params_list[5][pt.max_depth]]

Table == out_list.cv_results_df
Rows == 1..Len(Table)
NoFitFailed == \A t \in Rows : ~Table[t].mean_test_score.nan
Scored == {t \in Rows : ~Table[t].mean_test_score.nan}
Val(t) == Table[t].mean_test_score.val

\* C3: when train_xgb returns and no fit failed, the score table has one row
\* for each point of the Cartesian product of the five ranges and no other
\* row: |G| rows, every grid point once, each with the values at its point.
C3_ExactlyGridEvaluated ==
    (gpc = "done" /\ NoFitFailed) =>
        /\ Len(Table) = Cardinality(GridPoints)
        /\ {RowPoint(Table[t]) : t \in Rows} = GridPoints
        /\ \A t, u \in Rows : t # u => RowPoint(Table[t]) # RowPoint(Table[u])
        /\ \A t \in Rows : RowValues(Table[t]) = PointValues(RowPoint(Table[t]))

\* C3 witness: a search over a grid with two ranges of two values returned
\* with no failed fit.
C3_Witness ==
    /\ gpc = "done"
    /\ NoFitFailed
    /\ Len(Table) = 4
    /\ Len(params_list[1]) = 2
    /\ Len(params_list[5]) = 2

\* C4 (as claimed): the best score is the maximum of the score table for R2
\* and the minimum of the score table for an error metric.
C4_DirectionFollowsMetric ==
    (gpc = "done" /\ Scored # {}) =>
        /\ ~out_list.best_score.nan
        /\ scoring = "r2" => \A t \in Scored : out_list.best_score.val >= Val(t)
        /\ scoring # "r2" => \A t \in Scored : out_list.best_score.val <= Val(t)

\* C4 (amended): for every scorer the best score is the maximum of the score
\* table; for an error metric the table holds the negated error, so the best
\* configuration is the one of least error.
C4_BestIsMaxOfTable ==
    (gpc = "done" /\ Scored # {}) =>
        /\ ~out_list.best_score.nan
        /\ \E t \in Scored : out_list.best_score.val = Val(t)
        /\ \A t \in Scored : out_list.best_score.val >= Val(t)
        /\ scoring # "r2" =>
              \A t \in Scored : -out_list.best_score.val <= Sign(scoring) * Val(t)

\* C4 witness: a search scored by an error metric returned, and its table
\* holds two different scores.
C4_Witness ==
    /\ gpc = "done"
    /\ scoring = "neg_mean_squared_error"
    /\ \E t, u \in Scored : Val(t) < Val(u) /\ out_list.best_score.val = Val(u)

\* C5: the best configuration is the first row, in the order of enumeration,
\* whose score is the best of the table.
C5_FirstBestWins ==
    (gpc = "done" /\ Scored # {}) =>
        /\ best_index \in Scored
        /\ \A t \in Scored : Val(best_index) >= Val(t)
        /\ \A t \in Scored : t < best_index => Val(t) < Val(best_index)
        /\ out_list.best_params = Table[best_index].params
        /\ out_list.best_score = Table[best_index].mean_test_score

\* C5 witness: two configurations share the best score and the search
\* returned the earlier one.
C5_Witness ==
    /\ gpc = "done"
    /\ \E u \in Scored :
          /\ best_index < u
          /\ Val(u) = Val(best_index)
          /\ Table[u].params # Table[best_index].params

(***************************************************************************)
(* Claims about prep_input.                                                *)
(***************************************************************************)
SplitCalls == 1..Len(splits)
Returned == {i \in SplitCalls : splits[i].outcome = "returned"}
Elems(sq) == {sq[k] : k \in 1..Len(sq)}
Requested == Elems(in_cols)

\* C6: the train and test partitions prep_input returns are disjoint, their
\* union is the set of all rows of the table, and their sizes sum to the
\* row count; a split is returned only for a fraction inside (0, 1).
C6_PartitionsCoverTable ==
    \A i \in Returned :
        /\ Elems(splits[i].X_train) \cap Elems(splits[i].X_test) = {}
        /\ Elems(splits[i].X_train) \cup Elems(splits[i].X_test) = 1..nrows
        /\ Len(splits[i].X_train) + Len(splits[i].X_test) = nrows
        /\ 0 < test_prop[1] /\ test_prop[1] < test_prop[2]

\* C6 witness: a table of three rows was split into one train row and two
\* test rows.
C6_Witness ==
    \E i \in Returned :
        /\ nrows = 3
        /\ Len(splits[i].X_train) = 1
        /\ Len(splits[i].X_test) = 2

\* C7: two calls of prep_input given the same table (with the same columns
\* and test fraction) end the same way and return the same train rows and
\* the same test rows.
C7_SplitIsDeterministic ==
    \A i, j \in SplitCalls :
        splits[i].given = splits[j].given =>
            /\ splits[i].outcome = splits[j].outcome
            /\ Elems(splits[i].X_train) = Elems(splits[j].X_train)
            /\ Elems(splits[i].X_test) = Elems(splits[j].X_test)
            /\ splits[i].xcols = splits[j].xcols

\* C7 witness: two calls on the same table of three rows both returned a split.
C7_Witness ==
    \E i, j \in Returned :
        /\ i # j
        /\ splits[i].given = splits[j].given
        /\ nrows = 3

ConfigurationCauses == {"requested column", "mean_no2", "test fraction", "empty grid"}

\* C9 (as claimed): when a configuration error ends train_and_run, no run
\* directory has been created and no log file or artifact has been written.
C9_AbortsBeforeAnyWork ==
    (tpc = "raised" /\ error.cause \in ConfigurationCauses) =>
        /\ out_folder = <<>>
        /\ written = {}

\* C10 (as claimed): a failure of the explainer step does not end
\* train_and_run with an exception, and the files written before the step,
\* the trained model included, stay as they were.
C10_ExplainerFailureNotFatal ==
    error.cause = "explainer" =>
        /\ tpc # "raised"
        /\ "best_estimator.pkl" \in written

\* C11 (as claimed): a failure while the prediction plot, the
\* feature-importance plot or the hyperparameter plots are produced does not
\* keep the trained model from being persisted: when train_and_run has ended
\* on such a failure, best_estimator.pkl is written.
C11_ModelPersistedDespitePlotFailure ==
    (tpc = "raised"
       /\ error.at \in {"model_test", "plot_feature_importance", "plot_hyperparams"})
        => "best_estimator.pkl" \in written

\* a valid input: the table has mean_no2 and every requested column under
\* headers the cleaning leaves distinct, no column is requested twice,
\* mean_no2 is requested, the fraction lies in (0, 1) and leaves a train row
\* for every fold, and no range of the grid is empty
ValidInput ==
    /\ \A k \in 1..Len(in_cols) : \E j \in 1..Len(table) : table[j] = in_cols[k]
    /\ \A k, l \in 1..Len(in_cols) : k # l => in_cols[k] # in_cols[l]
    /\ \E k \in 1..Len(in_cols) : in_cols[k] = mean_no2
    /\ ~CleanFrom(table, 1, table).raised
    /\ 0 < test_prop[1] /\ test_prop[1] < test_prop[2]
    /\ nrows - NTest(test_prop, nrows) >= cv
    /\ \A i \in 1..5 : params_list[i] # <<>>

\* the exceptions of a call into the file system or a library that failed
LibraryFailures == {"FileExistsError", "IOError", "Exception"}

\* C12 (as claimed): on a valid input train_and_run is ended by an exception
\* only when a call into the file system or a library failed; with no such
\* failure it runs to its return, past the explainer.
C12_ValidRunCompletes ==
    (ValidInput /\ tpc = "raised") => error.type \in LibraryFailures

(***************************************************************************)
(* Claims about the header cleaning of prep_input.                         *)
(***************************************************************************)
\* C14 (as claimed): when the loop over the headers has ended and the columns
\* are about to be selected, no header of the table contains a space.
C14_NoHeaderHasSpace ==
    spc = "select" => \A k \in 1..Len(in_data) : ~HasSpace(in_data[k])

(***************************************************************************)
(* Claims about the order of the statements of train_and_run.              *)
(***************************************************************************)
\* the statements of train_and_run that complete, in the order of the source
StatementOrder ==
    <<"prep_output", "init_logger", "read_csv", "param_grid", "prep_input",
      "to_csv", "cross_cross", "train_xgb", "model_test",
      "plot_feature_importance", "plot_hyperparams", "joblib.dump">>

Completed == {stages[k] : k \in 1..Len(stages)}

ExplainerRan == error.at = "shap_analytics"

\* C15 (as claimed): the run directory is allocated before any other
\* statement completes, and the trained model is persisted only after both
\* the evaluator and the explainer have run.
C15_ModelPersistedLast ==
    /\ stages # <<>> => stages[1] = "prep_output"
    /\ "best_estimator.pkl" \in written =>
          ("model_test" \in Completed /\ ExplainerRan)

\* C15 (amended): the run directory is allocated before any other statement
\* completes; the statements complete in the order of the source, each
\* after the one before it; the trained model is persisted after the search
\* and the evaluator and before the explainer, which runs only once the
\* model file is written.
C15_StatementsInSourceOrder ==
    /\ out_folder = <<>> => (stages = <<>> /\ written = {})
    /\ Len(stages) <= Len(StatementOrder)
    /\ \A k \in 1..Len(stages) : stages[k] = StatementOrder[k]
    /\ "best_estimator.pkl" \in written =>
          ({"train_xgb", "model_test"} \subseteq Completed)
    /\ (tpc = "shap_analytics" \/ ExplainerRan) =>
          ("best_estimator.pkl" \in written /\ Len(stages) = Len(StatementOrder))

\* C15 witness: every statement up to joblib.dump completed, the model file
\* is written, and the explainer ran after it.
C15_Witness ==
    /\ ExplainerRan
    /\ stages = StatementOrder
    /\ "best_estimator.pkl" \in written

(***************************************************************************)
(* Claims about the run number prep_output picks.                          *)
(***************************************************************************)
\* the subdirectories MODEL_RUNS held when the i-th finished call began (a
\* call of prep_output never changes the kind of an entry that exists)
SubdirsBefore(i) == {name \in calls[i].before : fs[name] = "dir"}

RunNumber(i) == calls[i].out[1].num

\* C16 (as claimed): every finished call of prep_output created and returned
\* Run<n>, n the smallest positive integer such that Run<n> was no
\* subdirectory of MODEL_RUNS when the call began; the numbers of successive
\* calls are strictly increasing.
C16_CreatesSmallestFreeRun ==
    /\ \A i \in Finished :
          /\ calls[i].outcome = "returned"
          /\ \E n \in 1..(MaxRun + 1) :
                /\ calls[i].out = DirName(n)
                /\ DirName(n) \notin SubdirsBefore(i)
                /\ \A m \in 1..(n - 1) : DirName(m) \in SubdirsBefore(i)
    /\ \A i, j \in Finished : i < j => RunNumber(i) < RunNumber(j)

(***************************************************************************)
(* Claims about test_metrics.                                              *)
(***************************************************************************)
IsOne(m) == ~m.nan /\ m.den # 0 /\ m.num = m.den
IsZero(m) == ~m.nan /\ m.den # 0 /\ m.num = 0

\* C13 (as claimed): for every non-empty ground-truth vector, test_metrics
\* on a prediction equal to it returns R2 = 1.0 and mean squared error 0.0.
C13_PerfectOnEveryVector ==
    (mpc = "returned" /\ prediction = y_test /\ y_test # <<>>) =>
        /\ IsOne(metrics[1])
        /\ IsZero(metrics[2])

\* C13 (amended): for every ground-truth vector of two or more elements,
\* constant vectors included, test_metrics on a prediction equal to it
\* returns R2 = 1.0 and mean squared error 0.0; for a vector of one element
\* it returns R2 = NaN and mean squared error 0.0.
C13_PerfectOnTwoOrMore ==
    (mpc = "returned" /\ prediction = y_test) =>
        /\ Len(y_test) >= 2 => IsOne(metrics[1])
        /\ Len(y_test) = 1 => metrics[1].nan
        /\ IsZero(metrics[2])

\* C13 witness: test_metrics returned for a constant vector of three
\* elements and a prediction equal to it.
C13_Witness ==
    /\ mpc = "returned"
    /\ prediction = y_test
    /\ Len(y_test) = 3
    /\ \A i \in 1..Len(y_test) : y_test[i] = y_test[1]

(***************************************************************************)
(* Claims about the rows the model is handed.                              *)
(***************************************************************************)
\* the calls that fit a model or score one inside the search
ModelFits == {"fit", "cv_fit", "cv_score", "refit"}

Handed == 1..Len(uses)

\* C17: every fit and every fold of the search is handed rows of the train
\* partition only, none of them a row of the test partition; X_test and
\* y_test are handed to the evaluator alone, after train_xgb returned the
\* refitted best model.
C17_TestPartitionHeldOut ==
    /\ \A i \in Handed :
          uses[i].op \in ModelFits =>
              /\ uses[i].rows \subseteq RowSet(X_train)
              /\ uses[i].rows \cap RowSet(X_test) = {}
    /\ \A i \in Handed :
          (uses[i].arg \in {"X_test", "y_test"} \/ uses[i].op \in {"predict", "test_metrics"}) =>
              /\ uses[i].op \in {"predict", "test_metrics"}
              /\ uses[i].rows = RowSet(X_test)
              /\ "train_xgb" \in Completed
              /\ \E j \in 1..(i - 1) : uses[j].op = "refit"

\* C17 witness: the search ran its folds on a train partition of two rows
\* and the evaluator was then handed the test partition.
C17_Witness ==
    /\ Len(X_train) >= 2
    /\ X_test # <<>>
    /\ \E i, j \in Handed :
          /\ i < j
          /\ uses[i].op = "cv_fit" /\ uses[i].rows # {}
          /\ uses[j].op = "predict" /\ uses[j].rows = RowSet(X_test)

====
